---- MODULE Spec2Model ----
(***************************************************************************)
(* panonoctl: the JSON-RPC client of src/main.rs.  send() allocates the    *)
(* next request id, encodes and transmits the request and then reads the   *)
(* websocket until the Response carrying that id arrives; main() issues    *)
(* the Auth call and then one call per REPL command.                       *)
(***************************************************************************)
EXTENDS Integers, Sequences, FiniteSets, TLC

VARIABLES
    pc,        \* where main() is: start, wait (inside send), repl, exit, panic
    req_id,    \* the counter of main()
    id,        \* the id of the invocation of send() that runs or ran last
    ncalls,    \* how many times send() has been invoked
    cur,       \* that invocation: its Method, its encoded text, whether it was transmitted
    result,    \* what the invocation of send() that returned last returned; while
               \* a later invocation waits, only whether that one failed
    inflight,  \* calls transmitted that have not returned
    net,       \* the frame recv() yields next, if the device has sent one
    printed,   \* what the running call printed while handling its latest message
    unread,    \* the lines of that message the call returned without looking at
    ahead,     \* the greatest id of a Reply discarded by a call with a lower id; 0: none
    fnIn,      \* the value handed to the encoder or to the option decoder
    fnOut      \* what the encoder or the option decoder made of it

vars == <<pc, req_id, id, ncalls, cur, result, inflight, net, printed, unread, ahead, fnIn, fnOut>>

(* ---------------- bounds of the model ---------------- *)
\* number of send() invocations explored on one connection
MaxCalls == 3
\* lines the device packs into one websocket text message
MaxUnits == 2
\* constraints carried by one option
MaxConstraints == 2
\* elements of one "values" list
MaxElems == 2
\* ids handed to the encoder
MaxEncId == 13

(* ---------------- Method, Request and its encoding ---------------- *)
ImageIds == {"img"}
OptionNames == {"ISO"}

Methods ==
    {[v |-> "Auth", args |-> <<"test", "test">>]}
    \cup {[v |-> "DeleteUpf", args |-> <<i>>] : i \in ImageIds}
    \cup {[v |-> "GetOption", args |-> <<n>>] : n \in OptionNames}
    \cup {[v |-> k, args |-> <<>>] :
            k \in {"GetUpfInfos", "GetStatus", "GetOptions", "GetOptionList", "Capture"}}

\* serde(rename_all = "snake_case") on the variant names
MethodName(v) ==
    CASE v = "Auth" -> "auth"
      [] v = "DeleteUpf" -> "delete_upf"
      [] v = "GetUpfInfos" -> "get_upf_infos"
      [] v = "GetStatus" -> "get_status"
      [] v = "GetOptions" -> "get_options"
      [] v = "GetOptionList" -> "get_option_list"
      [] v = "GetOption" -> "get_option"
      [] v = "Capture" -> "capture"

\* the variants that carry fields; the others are unit variants
HasContent(v) == v \in {"Auth", "DeleteUpf", "GetOption"}

\* an encoder that writes "params" for every variant
EncodeAlwaysParams(i, m) ==
    <<[k |-> "id", val |-> <<i>>], [k |-> "method", val |-> <<MethodName(m.v)>>],
      [k |-> "params", val |-> m.args], [k |-> "jsonrpc", val |-> <<"2.0">>]>>

\* serde_json::to_string(&Request{id, method, jsonrpc}): the object's members
\* in order.  The adjacently tagged Method is flattened into the object; a
\* unit variant serializes its tag only, without content.
Encode(i, m) ==
    <<[k |-> "id", val |-> <<i>>], [k |-> "method", val |-> <<MethodName(m.v)>>]>>
    \o (IF HasContent(m.v) THEN <<[k |-> "params", val |-> m.args]>> ELSE <<>>)
    \o <<[k |-> "jsonrpc", val |-> <<"2.0">>]>>

\* the type T each call site of send::<T> names
ResultType(v) ==
    CASE v = "Auth" -> "ResponseStatus"
      [] v = "DeleteUpf" -> "ResponseDelete"
      [] v = "GetUpfInfos" -> "ResponseGetUpfInfos"
      [] v = "GetStatus" -> "ResponseStatus"
      [] v = "GetOptions" -> "ResponseStatus"
      [] v = "GetOptionList" -> "ResponseGetOptionList"
      [] v = "GetOption" -> "ResponseGetOption"
      [] v = "Capture" -> "ResponseCapture"

(* ---------------- inbound text: payloads, units, messages ---------------- *)
\* the raw JSON of a "result" member: ty is the one result struct its fields fit
Payload(ty, v) == [ty |-> ty, v |-> v]
NoPayload == Payload("none", 0)
PayloadSet == {Payload("ResponseStatus", 1), Payload("ResponseStatus", 2)}

\* one character-level piece of a text message: a newline, a JSON object
\* written on one line, or bytes that are no JSON value.  id = -1: no "id" member.
Atom(t, i, j, r, m, w, e) ==
    [t |-> t, id |-> i, jsonrpc |-> j, result |-> r, method |-> m, warning |-> w, error |-> e]
NL == Atom("nl", -1, FALSE, NoPayload, FALSE, "absent", FALSE)
Garbage == Atom("junk", -1, FALSE, NoPayload, FALSE, "absent", FALSE)
\* {"id":i,"jsonrpc":"2.0","result":p,"warning":null}
ReplyUnit(i, p) == Atom("obj", i, TRUE, p, FALSE, "null", FALSE)
\* {"jsonrpc":"2.0","method":"status_update","params":{...}}
NotificationUnit == Atom("obj", -1, TRUE, NoPayload, TRUE, "absent", FALSE)
\* a reply that also carries "method" and "params"
ReplyWithMethodUnit(i, p) == Atom("obj", i, TRUE, p, TRUE, "null", FALSE)
\* {"error":{...},"id":i,"jsonrpc":"2.0"}, the sample of main.rs:134
ErrorUnit(i) == Atom("obj", i, TRUE, NoPayload, FALSE, "absent", TRUE)

RECURSIVE Join(_)
\* the lines joined by newlines into one text
Join(ls) ==
    IF Len(ls) = 0 THEN <<>>
    ELSE IF Len(ls) = 1 THEN ls[1]
    ELSE ls[1] \o <<NL>> \o Join(Tail(ls))

RECURSIVE SeqsUpTo(_, _)
SeqsUpTo(S, n) ==
    IF n = 0 THEN {<<>>}
    ELSE LET prev == SeqsUpTo(S, n - 1) IN
         prev \cup {Append(q, x) : q \in {r \in prev : Len(r) = n - 1}, x \in S}

\* the payload of a Reply that comes late
LatePayload == Payload("ResponseStatus", 2)
\* the payload of a Reply that comes before its request, and of a Reply that
\* carries "method" and "params" as well: the device writes each payload in
\* Replies of that sort only, so a payload tells which Reply it came in
EarlyPayload == Payload("ResponseStatus", 3)
MethodReplyPayload == Payload("ResponseStatus", 4)

\* the lines the device writes when the client has issued ids up to r: a line
\* is a sequence of atoms without NL.  The device answers the request it got
\* last, may still answer the one before it, and may write a Reply that
\* carries the id the client will use next.
DeviceLines(r) ==
    {<<ReplyUnit(r, p)>> : p \in PayloadSet}
    \cup {<<ReplyUnit(i, LatePayload)>> : i \in {r - 1} \ {0}}
    \cup {<<ReplyUnit(r + 1, EarlyPayload)>>}
    \cup {<<ReplyWithMethodUnit(r, MethodReplyPayload)>>, <<ErrorUnit(r)>>}
    \cup {<<NotificationUnit>>, <<Garbage>>, <<>>}

DeviceTexts(r) == {Join(ls) : ls \in SeqsUpTo(DeviceLines(r), MaxUnits) \ {<<>>}}

Frame(f, text) == [f |-> f, text |-> text]
DeviceFrames(r) ==
    {Frame("text", t) : t \in DeviceTexts(r)}
    \cup {Frame(f, <<>>) : f \in {"close", "error", "binary", "ping", "pong"}}

RECURSIVE SplitNL(_, _)
\* text.split('\n'): piece is the piece being collected
SplitNL(text, piece) ==
    IF Len(text) = 0 THEN <<piece>>
    ELSE IF Head(text).t = "nl" THEN <<piece>> \o SplitNL(Tail(text), <<>>)
    ELSE SplitNL(Tail(text), Append(piece, Head(text)))

\* no splitting: the whole message is one unit
LinesWhole(text) == <<text>>

\* str::lines(): split at every newline; a final empty piece is no line
Lines(text) ==
    LET ps == SplitNL(text, <<>>) IN
    IF ps[Len(ps)] = <<>> THEN SubSeq(ps, 1, Len(ps) - 1) ELSE ps

(* ---------------- decoding of one line ---------------- *)
\* serde_json::from_str::<Response>: one JSON object with id: u32, jsonrpc,
\* result; warning may be missing or null; members not named are ignored
IsResponse(line) ==
    /\ Len(line) = 1
    /\ line[1].t = "obj"
    /\ line[1].id >= 0
    /\ line[1].jsonrpc
    /\ line[1].result.ty # "none"
    /\ line[1].warning \in {"absent", "null", "obj"}

\* a Push Notification shape whose method and params may be missing
IsIncomingRequestLoose(line) ==
    /\ Len(line) = 1
    /\ line[1].t = "obj"
    /\ line[1].jsonrpc

\* serde_json::from_str::<IncomingRequest>: jsonrpc, method, params
IsIncomingRequest(line) ==
    /\ Len(line) = 1
    /\ line[1].t = "obj"
    /\ line[1].jsonrpc
    /\ line[1].method

NoAtom == Atom("none", -1, FALSE, NoPayload, FALSE, "absent", FALSE)

\* a classification that tries the Push Notification shape first
ParsePacketRequestFirst(line) ==
    IF IsIncomingRequest(line) THEN [tag |-> "IncomingRequest", u |-> line[1]]
    ELSE IF IsResponse(line) THEN [tag |-> "Response", u |-> line[1]]
    ELSE [tag |-> "Err", u |-> NoAtom]

\* from_str(text).map(Response).or_else(|_| from_str(text).map(IncomingRequest))
ParsePacket(line) ==
    IF IsResponse(line) THEN [tag |-> "Response", u |-> line[1]]
    ELSE IF IsIncomingRequest(line) THEN [tag |-> "IncomingRequest", u |-> line[1]]
    ELSE [tag |-> "Err", u |-> NoAtom]

\* what send() has produced so far: st is "none" (not returned), "next" (the
\* message is used up, receive again), "ok" or "err"
Res(st, val, err, rawLine, rawPayload, at) ==
    [st |-> st, val |-> val, err |-> err, rawLine |-> rawLine,
     rawPayload |-> rawPayload, at |-> at]
NoRes == Res("none", NoPayload, "", <<>>, NoPayload, 0)

\* a decoder that accepts a payload of any shape
DecodeResultLenient(T, p, k) == Res("ok", p, "", <<>>, NoPayload, k)

\* serde_json::from_str::<T>(r.result.get()).with_context("Error parsing response ..")
DecodeResult(T, p, k) ==
    IF p.ty = T THEN Res("ok", p, "", <<>>, NoPayload, k)
    ELSE Res("err", NoPayload, "Error parsing response", <<>>, p, k)

\* a match that does not compare the id
MatchesAnyId(pk, myid) == pk.tag = "Response"

\* a match that also takes the Reply to an earlier call
MatchesStale(pk, myid) == pk.tag = "Response" /\ pk.u.id <= myid

\* a match that also takes the Reply to a call not yet made
MatchesOrLater(pk, myid) == pk.tag = "Response" /\ pk.u.id >= myid

\* a match that also takes the Reply to the call just before
MatchesPrevious(pk, myid) == pk.tag = "Response" /\ pk.u.id \in {myid - 1, myid}

\* Response(r) if r.id == id
Matches(pk, myid) == pk.tag = "Response" /\ pk.u.id = myid

\* an error that does not carry the text
PacketErrorNoText(line, k) == Res("err", NoPayload, "Error parsing packet", <<>>, NoPayload, k)

\* .with_context(|| format!("Error parsing packet {}", &text))?
PacketError(line, k) == Res("err", NoPayload, "Error parsing packet", line, NoPayload, k)

\* a loop that prints Push Notifications only
LoggedRequestsOnly(acc, pk) == IF pk.tag = "IncomingRequest" THEN Append(acc, pk) ELSE acc

\* other => println!("unexpected packet {:#?}", other)
Logged(acc, pk) == Append(acc, pk)

RECURSIVE ScanGivesUp(_, _, _, _, _)
\* a loop that fails the call when a message ends without the matching Reply
ScanGivesUp(ls, k, myid, T, acc) ==
    IF k > Len(ls) THEN [r |-> Res("err", NoPayload, "no reply", <<>>, NoPayload, 0), out |-> acc]
    ELSE LET pk == ParsePacket(ls[k]) IN
         IF pk.tag = "Err"
         THEN [r |-> PacketError(ls[k], k), out |-> acc]
         ELSE IF Matches(pk, myid)
         THEN [r |-> DecodeResult(T, pk.u.result, k), out |-> acc]
         ELSE ScanGivesUp(ls, k + 1, myid, T, Logged(acc, pk))

RECURSIVE ScanParsesAll(_, _, _, _, _)
\* a loop that parses every line of the message before it looks at any
ScanParsesAll(ls, k, myid, T, acc) ==
    LET bad == {j \in k..Len(ls) : ParsePacket(ls[j]).tag = "Err"} IN
    IF bad # {}
    THEN LET b == CHOOSE j \in bad : \A i \in bad : j <= i IN
         [r |-> PacketError(ls[b], b), out |-> acc]
    ELSE IF k > Len(ls) THEN [r |-> Res("next", NoPayload, "", <<>>, NoPayload, 0), out |-> acc]
    ELSE LET pk == ParsePacket(ls[k]) IN
         IF Matches(pk, myid)
         THEN [r |-> DecodeResult(T, pk.u.result, k), out |-> acc]
         ELSE ScanParsesAll(ls, k + 1, myid, T, Logged(acc, pk))

RECURSIVE Scan(_, _, _, _, _)
\* the for loop over the lines of one message, from line k on; acc is what
\* println!("unexpected packet ..") has written for this message
Scan(ls, k, myid, T, acc) ==
    IF k > Len(ls) THEN [r |-> Res("next", NoPayload, "", <<>>, NoPayload, 0), out |-> acc]
    ELSE LET pk == ParsePacket(ls[k]) IN
         IF pk.tag = "Err"
         THEN [r |-> PacketError(ls[k], k), out |-> acc]
         ELSE IF Matches(pk, myid)
         THEN [r |-> DecodeResult(T, pk.u.result, k), out |-> acc]
         ELSE Scan(ls, k + 1, myid, T, Logged(acc, pk))

(* ---------------- send(), recv() and main() ---------------- *)
Max(S) == CHOOSE x \in S : \A y \in S : y <= x

\* a counter that stays at its first value
NextIdStuck(r) == IF r = 0 THEN 1 ELSE r

\* *req_id += 1.  The counter is a u32; MaxCalls keeps it far below 2^32,
\* where the addition would overflow.
NextId(r) == r + 1

\* send() returns res to its caller.  The Auth call of main() ends the process
\* on a failure (the ? of main.rs:302); a REPL command's failure is printed by
\* the REPL, which then reads the next command.
Return(res) ==
    /\ result' = res
    /\ inflight' = IF cur.sent THEN inflight - 1 ELSE inflight
    /\ pc' = IF res.st = "err" /\ ncalls = 1 THEN "exit" ELSE "repl"

NoMethod == [v |-> "none", args |-> <<>>]
Call(m, text, sent) == [m |-> m, text |-> text, sent |-> sent]

\* the caller has printed the value or the failure the call before returned
\* and has let go of it: what stays is only whether that call failed
Dropped(res) == Res(res.st, NoPayload, "", <<>>, NoPayload, 0)

\* main.rs:181-188: take the next id, encode, transmit
StartCall(m, sendOk) ==
    /\ ncalls < MaxCalls
    /\ ncalls' = ncalls + 1
    /\ req_id' = NextId(req_id)
    /\ id' = req_id'
    /\ cur' = Call(m, Encode(req_id', m), sendOk)
    /\ IF sendOk
       THEN /\ pc' = "wait"
            /\ inflight' = inflight + 1
            /\ result' = Dropped(result)
       ELSE /\ pc' = IF ncalls' = 1 THEN "exit" ELSE "repl"
            /\ inflight' = inflight
            /\ result' = Res("err", NoPayload, "send_message", <<>>, NoPayload, 0)
    /\ printed' = <<>>
    /\ unread' = <<>>
    /\ UNCHANGED <<net, ahead, fnIn, fnOut>>

\* let auth: ResponseStatus = send(.., Method::Auth{..})?
Auth ==
    /\ pc = "start"
    /\ \E ok \in BOOLEAN : StartCall([v |-> "Auth", args |-> <<"test", "test">>], ok)

\* a REPL that takes a command while a handler is still inside send()
ReplReadyEarly == pc \in {"repl", "wait"}

\* a REPL that stops reading commands once a handler has failed
ReplReadyUnlessFailed == pc = "repl" /\ result.st # "err"

\* the REPL reads a line only when the previous handler has returned
ReplReady == pc = "repl"

\* the commands typed at the REPL in the explored runs
UserCommands == {"delete", "get_status"}

\* the Method each REPL command passes to send()
CommandMethods(c) ==
    CASE c = "delete" -> {[v |-> "DeleteUpf", args |-> <<i>>] : i \in ImageIds}
      [] c = "download" -> {[v |-> "GetUpfInfos", args |-> <<>>]}
      [] c = "get_upf_infos" -> {[v |-> "GetUpfInfos", args |-> <<>>]}
      [] c = "get_status" -> {[v |-> "GetStatus", args |-> <<>>]}
      [] c = "get_options" -> {[v |-> "GetOptions", args |-> <<>>]}
      [] c = "get_option_list" -> {[v |-> "GetOptionList", args |-> <<>>]}
      [] c = "get_option_value" -> {[v |-> "GetOption", args |-> <<n>>] : n \in OptionNames}
      [] c = "capture" -> {[v |-> "Capture", args |-> <<>>]}

\* one REPL command
Command ==
    /\ ReplReady
    /\ \E c \in UserCommands : \E m \in CommandMethods(c), ok \in BOOLEAN : StartCall(m, ok)

\* recv() yields a text message and the for loop of send() runs over its lines
RecvText ==
    /\ pc = "wait"
    /\ net # <<>>
    /\ Head(net).f = "text"
    /\ LET ls == Lines(Head(net).text)
           sc == Scan(ls, 1, id, ResultType(cur.m.v), <<>>) IN
       /\ printed' = sc.out
       /\ ahead' = Max({ahead} \cup {i \in {sc.out[j].u.id : j \in 1..Len(sc.out)} : i > id})
       /\ IF sc.r.st = "next"
          THEN /\ unread' = <<>>
               /\ UNCHANGED <<pc, result, inflight>>
          ELSE /\ unread' = SubSeq(ls, sc.r.at + 1, Len(ls))
               /\ Return(sc.r)
    /\ net' = Tail(net)
    /\ UNCHANGED <<req_id, id, ncalls, cur, fnIn, fnOut>>

\* OwnedMessage::Close(_) => bail!("Websocket closed")
RecvClose ==
    /\ pc = "wait"
    /\ net # <<>>
    /\ Head(net).f = "close"
    /\ Return(Res("err", NoPayload, "Websocket closed", <<>>, NoPayload, 0))
    /\ net' = Tail(net)
    /\ UNCHANGED <<req_id, id, ncalls, cur, printed, unread, ahead, fnIn, fnOut>>

\* client.recv_message()? fails
RecvError ==
    /\ pc = "wait"
    /\ net # <<>>
    /\ Head(net).f = "error"
    /\ Return(Res("err", NoPayload, "recv_message", <<>>, NoPayload, 0))
    /\ net' = Tail(net)
    /\ UNCHANGED <<req_id, id, ncalls, cur, printed, unread, ahead, fnIn, fnOut>>

\* Binary, Ping, Pong => unimplemented!(): the thread panics inside send()
RecvUnimplemented ==
    /\ pc = "wait"
    /\ net # <<>>
    /\ Head(net).f \in {"binary", "ping", "pong"}
    /\ pc' = "panic"
    /\ net' = Tail(net)
    /\ UNCHANGED <<req_id, id, ncalls, cur, result, inflight, printed, unread, ahead, fnIn, fnOut>>

\* the device writes the next frame to the connection.  recv() takes the
\* frames one by one in the order sent, so the frame is modelled as arriving
\* when recv() asks for it: a frame sent while no call waits, or behind
\* another frame, reaches the client as the same sequence of frames.
DeviceSend ==
    /\ net = <<>>
    /\ pc = "wait"
    /\ \E fr \in DeviceFrames(req_id) : net' = Append(net, fr)
    /\ UNCHANGED <<pc, req_id, id, ncalls, cur, result, inflight, printed, unread, ahead, fnIn, fnOut>>

\* let mut req_id = 0, a connected client, nothing sent or received yet
Fresh ==
    /\ req_id = 0
    /\ id = 0
    /\ ncalls = 0
    /\ cur = Call(NoMethod, <<>>, FALSE)
    /\ result = NoRes
    /\ inflight = 0
    /\ net = <<>>
    /\ printed = <<>>
    /\ unread = <<>>
    /\ ahead = 0

Init ==
    /\ pc = "start"
    /\ Fresh
    /\ fnIn = <<>>
    /\ fnOut = <<>>

Next ==
    \/ Auth
    \/ Command
    \/ RecvText
    \/ RecvClose
    \/ RecvError
    \/ RecvUnimplemented
    \/ DeviceSend

Spec == Init /\ [][Next]_vars

\* a call blocked in recv() goes on as soon as the transport has a frame for it
FairSpec == Spec /\ WF_vars(RecvText \/ RecvClose \/ RecvError \/ RecvUnimplemented)

(* ---------------- the encoder by itself ---------------- *)
\* every Method with every id up to MaxEncId
InitEncode ==
    /\ pc = "encode"
    /\ Fresh
    /\ fnIn \in [i : 1..MaxEncId, m : Methods]
    /\ fnOut = <<>>

\* serde_json::to_string(&Request { id, method, jsonrpc: "2.0" })
EncodeStep ==
    /\ pc = "encode"
    /\ fnOut' = Encode(fnIn.i, fnIn.m)
    /\ pc' = "encoded"
    /\ UNCHANGED <<req_id, id, ncalls, cur, result, inflight, net, printed, unread, ahead, fnIn>>

SpecEncode == InitEncode /\ [][EncodeStep]_vars

(* ---------------- CameraOption and Constraint<T> ---------------- *)
\* a JSON scalar: its kind and its text
JVal(k, s) == [k |-> k, s |-> s]
Scalars ==
    {JVal("bool", "true"), JVal("string", "0.25"), JVal("string", "2000"),
     JVal("string", "auto"), JVal("uint", "10000"), JVal("negint", "-1")}
\* the scalars that lists are made of
ListScalars == {JVal("bool", "true"), JVal("string", "0.25")}

\* the "value" member of a constraint: one scalar or a list of scalars
ScalarValue(x) == [list |-> FALSE, items |-> <<x>>]
ListValue(xs) == [list |-> TRUE, items |-> xs]
Values ==
    {ScalarValue(x) : x \in Scalars}
    \cup {ListValue(xs) : xs \in SeqsUpTo(ListScalars, MaxElems)}

\* {"constraint": tag, "value": value}, with the three tags of Constraint
\* and one tag it does not have
ConstraintInputs ==
    [constraint : {"values", "min", "max"}, value : Values]
    \cup {[constraint |-> "step", value |-> ScalarValue(JVal("uint", "10000"))]}

\* {"type": .., "name": .., "constraints": [..]}; name says whether "name" is there
OptionInputs ==
    [type : {"Boolean", "Enumeration", "Number", "Integer", "Color"},
     name : BOOLEAN,
     constraints : SeqsUpTo(ConstraintInputs, MaxConstraints)]

\* the T of Vec<Constraint<T>> in each variant of CameraOption
ElemType(type) ==
    CASE type = "Boolean" -> "bool"
      [] type = "Enumeration" -> "String"
      [] type = "Number" -> "String"
      [] type = "Integer" -> "u64"

\* a deserializer that turns numbers into strings and numeric strings into numbers
AcceptsCoercing(T, x) ==
    CASE T = "bool" -> x.k = "bool"
      [] T = "String" -> x.k \in {"string", "uint", "negint"}
      [] T = "u64" -> x.k = "uint" \/ (x.k = "string" /\ x.s \in {"2000"})

\* T::deserialize of one JSON scalar
Accepts(T, x) ==
    CASE T = "bool" -> x.k = "bool"
      [] T = "String" -> x.k = "string"
      [] T = "u64" -> x.k = "uint"

\* Constraint<T>::deserialize: the tag picks the variant, the variant the
\* shape of "value" (Vec<T> for Values, T for Min and Max)
DecodesConstraint(T, c) ==
    /\ c.constraint \in {"values", "min", "max"}
    /\ c.value.list <=> c.constraint = "values"
    /\ \A j \in 1..Len(c.value.items) : Accepts(T, c.value.items[j])

NoOption == [type |-> "none", name |-> FALSE, constraints |-> <<>>]

\* serde_json::from_str::<CameraOption>: the "type" tag picks the variant,
\* which needs "name" and "constraints"; the values are kept as they are
DecodeOption(o) ==
    IF /\ o.type \in {"Boolean", "Enumeration", "Number", "Integer"}
       /\ o.name
       /\ \A j \in 1..Len(o.constraints) : DecodesConstraint(ElemType(o.type), o.constraints[j])
    THEN [st |-> "ok", opt |-> o]
    ELSE [st |-> "err", opt |-> NoOption]

InitOption ==
    /\ pc = "decode"
    /\ Fresh
    /\ fnIn \in OptionInputs
    /\ fnOut = <<>>

OptionStep ==
    /\ pc = "decode"
    /\ fnOut' = DecodeOption(fnIn)
    /\ pc' = "decoded"
    /\ UNCHANGED <<req_id, id, ncalls, cur, result, inflight, net, printed, unread, ahead, fnIn>>

SpecOption == InitOption /\ [][OptionStep]_vars

(* ---------------- ResponseGetOption and StringOrNumber ---------------- *)
\* the JSON tokens a device may write as the "value" of an option; the kind
\* "absent" stands for an object without that member
ValueTokens ==
    {JVal("bool", "true"), JVal("bool", "false"),
     JVal("string", "50"), JVal("string", "true"), JVal("string", "false"),
     JVal("string", "auto"), JVal("string", ""), JVal("string", "0.25"),
     JVal("string", "null"),
     JVal("uint", "50"), JVal("uint", "0"), JVal("uint", "10000"),
     JVal("negint", "-1"), JVal("float", "0.25"), JVal("float", "1e3"),
     JVal("null", "null"), JVal("array", "[]"), JVal("array", "[50]"),
     JVal("object", "{}"), JVal("absent", "")}

\* {"name": .., "value": ..}: name is the kind of the "name" member
GetOptionInputs == [name : {"string", "uint", "absent"}, value : ValueTokens]

\* the variants of StringOrNumber in the order of their declaration
Variants == <<"String", "Number", "Bool">>

\* variants that take whatever can be printed as their type
VariantAcceptsLoose(v, x) ==
    CASE v = "String" -> x.k \in {"string", "bool", "uint", "negint", "float"}
      [] v = "Number" -> x.k \in {"uint", "negint", "float"}
      [] v = "Bool" -> x.k = "bool"

\* String, f64 and bool deserialized from the buffered token: a string for
\* String, any JSON number for f64, true or false for bool
VariantAccepts(v, x) ==
    CASE v = "String" -> x.k = "string"
      [] v = "Number" -> x.k \in {"uint", "negint", "float"}
      [] v = "Bool" -> x.k = "bool"

NoValue == [st |-> "err", variant |-> "none", tok |-> JVal("absent", "")]

\* #[serde(untagged)]: the variants are tried in order and the first that
\* deserializes is taken; no variant fitting is an error
DecodeStringOrNumber(x) ==
    LET fit == {j \in 1..Len(Variants) : VariantAccepts(Variants[j], x)} IN
    IF fit = {} THEN NoValue
    ELSE [st |-> "ok", variant |-> Variants[CHOOSE j \in fit : \A i \in fit : j <= i],
          tok |-> x]

\* serde_json::from_str::<ResponseGetOption>: name: String and value
DecodeGetOption(o) ==
    IF o.name = "string" THEN DecodeStringOrNumber(o.value) ELSE NoValue

InitValue ==
    /\ pc = "value"
    /\ Fresh
    /\ fnIn \in GetOptionInputs
    /\ fnOut = <<>>

ValueStep ==
    /\ pc = "value"
    /\ fnOut' = DecodeGetOption(fnIn)
    /\ pc' = "valued"
    /\ UNCHANGED <<req_id, id, ncalls, cur, result, inflight, net, printed, unread, ahead, fnIn>>

SpecValue == InitValue /\ [][ValueStep]_vars

(* ---------------- properties ---------------- *)
RECURSIVE AllLines(_)
\* the lines of the text frames of a queue, in order of arrival
AllLines(q) == IF q = <<>> THEN <<>> ELSE Lines(Head(q).text) \o AllLines(Tail(q))

IsReplyTo(line, n) == IsResponse(line) /\ line[1].id = n
IsUndecodable(line) == ~IsResponse(line) /\ ~IsIncomingRequest(line)

\* the step in which recv() hands the head of the queue to the running call
RecvStep == pc = "wait" /\ net # <<>> /\ net' = Tail(net)
RecvTextStep == RecvStep /\ Head(net).f = "text"
\* the lines of the message that step hands over
HeadLines == Lines(Head(net).text)

\* the first line at which the loop over ls leaves: the Reply with id n or a
\* line that is neither Reply nor Push Notification; Len(ls) + 1 if there is none
StopAt(ls, n) ==
    LET S == {k \in 1..Len(ls) : IsReplyTo(ls[k], n) \/ IsUndecodable(ls[k])} IN
    IF S = {} THEN Len(ls) + 1 ELSE CHOOSE k \in S : \A j \in S : k <= j

\* send() returns in this step
Returns ==
    /\ pc' \in {"repl", "exit"}
    /\ pc = "wait" \/ (pc \in {"start", "repl"} /\ ncalls' = ncalls + 1)
ReturnsErr == Returns /\ result'.st = "err"
ReturnsOk == Returns /\ result'.st = "ok"

\* the queue holds text frames only, every line of them is a Reply or a Push
\* Notification, and exactly one line is a Reply with id n; its payload is p
\* and fits the result type of the call
WellFormedWithReply(q, n, p, T) ==
    /\ q # <<>>
    /\ \A k \in 1..Len(q) : q[k].f = "text"
    /\ LET ls == AllLines(q) IN
       /\ \A k \in 1..Len(ls) : ~IsUndecodable(ls[k])
       /\ Cardinality({k \in 1..Len(ls) : IsReplyTo(ls[k], n)}) = 1
       /\ \E k \in 1..Len(ls) : IsReplyTo(ls[k], n) /\ ls[k][1].result = p
    /\ p.ty = T

\* the running call is waiting and the frames that have arrived for it begin
\* with such a run of messages
C1_Pre(p) ==
    /\ pc = "wait"
    /\ \E j \in 1..Len(net) :
          WellFormedWithReply(SubSeq(net, 1, j), id, p, ResultType(cur.m.v))

C1_Pending == \E p \in PayloadSet : C1_Pre(p)

\* C1: a call whose inbound messages are well-formed and hold exactly one Reply
\* with the call's id, among Push Notifications and Replies with other ids,
\* eventually returns success with the decode of that Reply's payload: the
\* call does not stay in that situation, and the step that ends the situation
\* is the call returning that value.
C1_EventuallyResolved ==
    /\ C1_Pending ~> ~C1_Pending
    /\ [][\A p \in PayloadSet :
            C1_Pre(p) /\ ~C1_Pre(p)'
                => pc' = "repl" /\ result'.st = "ok" /\ result'.val = p /\ id' = id]_vars

\* a call has returned success from a message in which a Reply with another
\* id came before its own
C1_Witness ==
    /\ pc = "repl"
    /\ result.st = "ok"
    /\ Len(printed) = 1
    /\ printed[1].tag = "Response"
    /\ printed[1].u.result # result.val

C3_OnlyOwnReply ==
    [][ReturnsOk =>
          /\ RecvTextStep
          /\ LET k == StopAt(HeadLines, id) IN
             /\ k <= Len(HeadLines)
             /\ IsReplyTo(HeadLines[k], id)
             /\ result'.val = HeadLines[k][1].result
             /\ result'.at = k
             /\ \A j \in 1..Len(printed') : ~Matches(printed'[j], id)]_vars

\* a call has returned the payload of the second line of a message whose
\* first line was a Push Notification
C3_Witness ==
    /\ pc = "repl"
    /\ result.st = "ok"
    /\ result.at = 2
    /\ Len(printed) = 1
    /\ printed[1].tag = "IncomingRequest"

\* the lines of ls before position n, as the loop decodes them
RECURSIVE ParsedPrefix(_, _)
ParsedPrefix(ls, n) ==
    IF n <= 1 THEN <<>> ELSE Append(ParsedPrefix(ls, n - 1), ParsePacket(ls[n - 1]))

\* C4 as stated: of every text message a call receives, every well-formed
\* envelope that is not the Reply with the outstanding id is logged.
C4_AllOthersLogged ==
    [][RecvTextStep =>
          \A k \in 1..Len(HeadLines) :
              ~IsUndecodable(HeadLines[k]) /\ ~IsReplyTo(HeadLines[k], id)
                  => \E j \in 1..Len(printed') : printed'[j].u = HeadLines[k][1]]_vars

\* C4 amended: of every text message a call receives, the envelopes that come
\* before the line that ends the call (the Reply with the outstanding id, or a
\* line that is neither Reply nor Push Notification) are logged, in order; the
\* lines after that one are neither decoded nor logged.
C4_LoggedUntilStop ==
    [][RecvTextStep => printed' = ParsedPrefix(HeadLines, StopAt(HeadLines, id))]_vars

\* a call is still waiting after a message of two envelopes, both logged
C4_Witness ==
    /\ pc = "wait"
    /\ Len(printed) = 2
    /\ printed[1].tag = "Response"
    /\ printed[2].tag = "IncomingRequest"

\* C5 as stated: a line that is neither Reply nor Push Notification does not
\* end the call.
C5_UndecodableNonFatal ==
    [][RecvTextStep
         /\ StopAt(HeadLines, id) <= Len(HeadLines)
         /\ IsUndecodable(HeadLines[StopAt(HeadLines, id)])
            => pc' = "wait"]_vars

\* C5 amended: a line that is neither Reply nor Push Notification, reached
\* before the Reply with the outstanding id, ends the call: send() returns a
\* failure that carries the line's raw text, whatever follows the line.
C5_UndecodableFatal ==
    [][RecvTextStep
         /\ StopAt(HeadLines, id) <= Len(HeadLines)
         /\ IsUndecodable(HeadLines[StopAt(HeadLines, id)])
            => /\ ReturnsErr
               /\ result'.err = "Error parsing packet"
               /\ result'.rawLine = HeadLines[StopAt(HeadLines, id)]]_vars

\* a REPL command's call has failed on a line that is no JSON
C5_Witness ==
    /\ pc = "repl"
    /\ result.st = "err"
    /\ result.rawLine = <<Garbage>>

\* the causes of a failure, read off the step
SendFails == pc \in {"start", "repl"} /\ ncalls' = ncalls + 1 /\ ~cur'.sent
TransportEnds == RecvStep /\ Head(net).f \in {"close", "error"}
BadPayload ==
    /\ RecvTextStep
    /\ LET k == StopAt(HeadLines, id) IN
       /\ k <= Len(HeadLines)
       /\ IsReplyTo(HeadLines[k], id)
       /\ HeadLines[k][1].result.ty # ResultType(cur.m.v)
UndecodableLine ==
    /\ RecvTextStep
    /\ LET k == StopAt(HeadLines, id) IN
       k <= Len(HeadLines) /\ IsUndecodable(HeadLines[k])

\* C6 as stated: send() returns a failure exactly when the transmit fails,
\* the transport closes or errs, or the matching Reply's payload does not
\* decode.
C6_ThreeCauses ==
    [][ReturnsErr <=> SendFails \/ TransportEnds \/ BadPayload]_vars

\* C6 amended: send() returns a failure exactly when the transmit fails, the
\* transport closes or errs before a matching Reply, the matching Reply's
\* payload does not decode, or a received line is neither Reply nor Push
\* Notification; the failure goes to the caller and nothing is transmitted
\* again for that call.
C6_FourCauses ==
    [][/\ ReturnsErr <=> SendFails \/ TransportEnds \/ BadPayload \/ UndecodableLine
       /\ ReturnsErr /\ ~SendFails => ncalls' = ncalls /\ cur' = cur /\ pc' # "wait"]_vars

\* a delete command has failed on a Reply whose payload is no ResponseDelete
C6_Witness ==
    /\ pc = "repl"
    /\ result.st = "err"
    /\ result.err = "Error parsing response"
    /\ result.rawPayload.ty = "ResponseStatus"

\* C7: at most one call is in flight on the connection: a call is transmitted
\* only when every earlier call has returned.
C7_OneInFlight == inflight <= 1

\* a later call is in flight after an earlier one has returned
C7_Witness == pc = "wait" /\ inflight = 1 /\ ncalls = 2 /\ result.st = "ok"

\* the number of newlines of a text
RECURSIVE CountNL(_)
CountNL(text) ==
    IF text = <<>> THEN 0
    ELSE (IF Head(text).t = "nl" THEN 1 ELSE 0) + CountNL(Tail(text))

\* k envelopes joined by newlines: no empty line, nothing but envelopes
IsJoinedEnvelopes(text) ==
    /\ text # <<>>
    /\ text[1].t # "nl" /\ text[Len(text)].t # "nl"
    /\ \A j \in 1..(Len(text) - 1) :
          (text[j].t = "nl") # (text[j + 1].t = "nl")

\* C8: a text message of k envelopes joined by newlines is handled as exactly
\* k units, in order, each unit being one envelope decoded by itself; when no
\* unit ends the call all k are decoded and logged in order, and what is
\* logged depends on this message only.
C8_SplitIntoUnits ==
    [][RecvTextStep /\ IsJoinedEnvelopes(Head(net).text) =>
          LET t == Head(net).text IN
          /\ Len(HeadLines) = CountNL(t) + 1
          /\ Join(HeadLines) = t
          /\ \A j \in 1..Len(HeadLines) : HeadLines[j] = <<t[2 * j - 1]>>
          /\ StopAt(HeadLines, id) > Len(HeadLines) =>
                /\ Len(printed') = Len(HeadLines)
                /\ \A j \in 1..Len(HeadLines) : printed'[j].u = t[2 * j - 1]]_vars

\* a call is still waiting after a message of two different envelopes, each
\* decoded and logged by itself
C8_Witness ==
    /\ pc = "wait"
    /\ Len(printed) = MaxUnits
    /\ printed[1].u # printed[2].u
    /\ printed[1].tag = "IncomingRequest"

\* the member names of an encoded object, and the value of one member
Keys(obj) == {obj[j].k : j \in 1..Len(obj)}
Member(obj, name) == (CHOOSE j \in 1..Len(obj) : obj[j].k = name)

\* the discriminator the device expects for each kind
KindNames ==
    {"auth", "delete_upf", "get_upf_infos", "get_status", "get_options",
     "get_option_list", "get_option", "capture"}

\* C9 as stated: the encoded text of every call kind carries all four of id,
\* method, params and jsonrpc.
C9_FourMembers ==
    pc = "encoded" =>
        /\ Len(fnOut) = Cardinality(Keys(fnOut))
        /\ Keys(fnOut) = {"id", "method", "params", "jsonrpc"}

\* C9 amended: the encoded text of every call kind is one object carrying id
\* (the call's id), method (the kind's discriminator, flattened into the
\* object) and jsonrpc "2.0"; params is carried beside method exactly for the
\* kinds that have parameters and is left out for the kinds that have none.
C9_MembersByKind ==
    pc = "encoded" =>
        /\ Len(fnOut) = Cardinality(Keys(fnOut))
        /\ Keys(fnOut) = {"id", "method", "jsonrpc"}
                         \cup (IF fnIn.m.args # <<>> THEN {"params"} ELSE {})
        /\ fnOut[Member(fnOut, "id")].val = <<fnIn.i>>
        /\ fnOut[Member(fnOut, "method")].val \in {<<n>> : n \in KindNames}
        /\ fnOut[Member(fnOut, "jsonrpc")].val = <<"2.0">>
        /\ fnIn.m.args # <<>> => fnOut[Member(fnOut, "params")].val = fnIn.m.args

\* a kind without parameters has been encoded
C9_Witness == pc = "encoded" /\ fnIn.m.v = "GetStatus" /\ Len(fnOut) = 3

\* the kind of JSON scalar the claim names for each type tag
ClaimedKind(type) ==
    CASE type = "Boolean" -> "bool"
      [] type = "Enumeration" -> "string"
      [] type = "Number" -> "string"
      [] type = "Integer" -> "uint"

\* the constraint's tag is one of values, min, max and its value is of the
\* kind the type tag asks for: a list of that kind for values, one scalar of
\* that kind for min and max
Agrees(type, c) ==
    /\ c.constraint \in {"values", "min", "max"}
    /\ IF c.constraint = "values" THEN c.value.list ELSE ~c.value.list
    /\ \A j \in 1..Len(c.value.items) : c.value.items[j].k = ClaimedKind(type)

StringBounds ==
    [type |-> "Number", name |-> TRUE,
     constraints |-> <<[constraint |-> "min", value |-> ScalarValue(JVal("string", "0.25"))],
                       [constraint |-> "max", value |-> ScalarValue(JVal("string", "2000"))]>>]

\* C10: an option (a named object with one of the four type tags) decodes if
\* and only if every constraint's tag is one of values, min, max and every
\* constraint value has the element type of the option's type tag; what
\* decodes is kept as it was written (no coercion), and a Number option with
\* the string bounds "0.25" and "2000" decodes.
C10_DecodesIffTypesAgree ==
    pc = "decoded" =>
        /\ fnIn.name /\ fnIn.type \in {"Boolean", "Enumeration", "Number", "Integer"} =>
              /\ fnOut.st = "ok" <=>
                    \A j \in 1..Len(fnIn.constraints) : Agrees(fnIn.type, fnIn.constraints[j])
              /\ fnOut.st = "ok" => fnOut.opt = fnIn
        /\ fnIn = StringBounds => fnOut.st = "ok"

\* the Number option with min "0.25" and max "2000" has been decoded
C10_Witness == pc = "decoded" /\ fnIn = StringBounds /\ fnOut.opt.constraints = fnIn.constraints

\* the kinds of token that are JSON numbers
NumberKinds == {"uint", "negint", "float"}

\* C11: the value of an option decodes to the first of string, number,
\* boolean that type-checks: a quoted token decodes to the string variant
\* whatever it spells ("50", "true"), a bare number to the number variant, the
\* bare tokens true and false to the boolean variant, each keeping its token;
\* a token fitting none of the three (null, a list, an object, no value) is a
\* decode failure.
C11_FirstFittingVariant ==
    pc = "valued" /\ fnIn.name = "string" =>
        LET x == fnIn.value IN
        /\ x.k = "string" => fnOut.st = "ok" /\ fnOut.variant = "String"
        /\ x.k \in NumberKinds => fnOut.st = "ok" /\ fnOut.variant = "Number"
        /\ x.k = "bool" => fnOut.st = "ok" /\ fnOut.variant = "Bool"
        /\ x.k \notin {"string", "bool"} \cup NumberKinds => fnOut.st = "err"
        /\ fnOut.st = "ok" => fnOut.tok = x

\* the bare token true has been decoded, to the boolean variant
C11_Witness ==
    /\ pc = "valued"
    /\ fnIn = [name |-> "string", value |-> JVal("bool", "true")]
    /\ fnOut.variant = "Bool"

\* C12: an empty line inside a text message is skipped: it is not parsed, so
\* no call ends with the decode error of an empty line.
C12_EmptyLineSkipped ==
    [][RecvTextStep =>
          ~(/\ ReturnsErr
            /\ result'.err = "Error parsing packet"
            /\ result'.rawLine = <<>>)]_vars

\* C15: every receive ends as a text message, a close signal or an error, on
\* which the call goes on waiting or returns to its caller; no frame, binary,
\* ping and pong included, ends the call without a return.
C15_EveryReceiveHandled ==
    [][pc = "wait" /\ net # <<>> /\ net' # net => pc' = "wait" \/ Returns]_vars

\* a Reply with another id than n, or a Push Notification
IsOtherEnvelope(line, n) == ~IsUndecodable(line) /\ ~IsReplyTo(line, n)

\* C13: a Reply with another id than the outstanding one, or a Push
\* Notification, received during a call is logged and dropped: it is not the
\* line the call returns, and no call ever returns the payload of a Reply that
\* came before its request; the call whose id a dropped Reply carried returns
\* only in a step that receives a message holding its Reply, so on a Reply
\* received after its own transmit.
C13_DiscardedNeverReturned ==
    /\ [](result.st = "ok" => result.val # EarlyPayload)
    /\ [][RecvTextStep =>
             \A k \in 1..Len(HeadLines) :
                 k <= StopAt(HeadLines, id) /\ IsOtherEnvelope(HeadLines[k], id) =>
                     /\ printed'[k].u = HeadLines[k][1]
                     /\ ~(Returns /\ result'.at = k)]_vars
    /\ [][ReturnsOk /\ ahead = id =>
             /\ RecvTextStep
             /\ \E k \in 1..Len(HeadLines) :
                   /\ IsReplyTo(HeadLines[k], id)
                   /\ result'.val = HeadLines[k][1].result
                   /\ result'.val \in PayloadSet \cup {MethodReplyPayload}]_vars

\* the call whose id an earlier call saw on a Reply and dropped has returned
\* success
C13_Witness == pc = "repl" /\ result.st = "ok" /\ ahead = id /\ ncalls >= 2

\* every line of the message is a Reply with another id than n or a Push
\* Notification
NoMatchIn(ls, n) == \A k \in 1..Len(ls) : IsOtherEnvelope(ls[k], n)

\* C14: a message is transmitted only as the one transmit with which a call
\* starts, made of that call's encoded request; a call receives only after
\* its transmit; while it waits it neither transmits again nor changes its
\* request; it stops waiting only in a step that receives a frame; and after
\* a message of Replies with other ids and Push Notifications only, it is
\* still waiting, for the next message.
C14_OneTransmitThenReceive ==
    [][/\ inflight' > inflight =>
             /\ pc \in {"start", "repl"}
             /\ ncalls' = ncalls + 1
             /\ inflight' = inflight + 1
             /\ cur'.sent /\ cur'.text = Encode(id', cur'.m)
       /\ RecvStep => cur.sent /\ inflight = 1
       /\ pc = "wait" =>
             /\ cur' = cur /\ ncalls' = ncalls /\ req_id' = req_id /\ id' = id
             /\ inflight' <= inflight
             /\ pc' # "wait" => RecvStep
       /\ RecvTextStep /\ NoMatchIn(HeadLines, id) =>
             pc' = "wait" /\ result' = result /\ net' = <<>>]_vars

\* a call that a message of one Push Notification left waiting has been
\* handed the next message
C14_Witness ==
    /\ pc = "wait"
    /\ printed = <<[tag |-> "IncomingRequest", u |-> NotificationUnit]>>
    /\ net # <<>>
    /\ Head(net).f = "text"

\* the line is one object with the members id, jsonrpc and result
FitsReplyShape(line) ==
    Len(line) = 1 /\ line[1].t = "obj" /\ line[1].id >= 0 /\ line[1].jsonrpc
                  /\ line[1].result # NoPayload
\* the line is one object with the members jsonrpc, method and params
FitsNotificationShape(line) ==
    Len(line) = 1 /\ line[1].t = "obj" /\ line[1].jsonrpc /\ line[1].method

\* C16: a line that fits the Reply shape is taken as a Reply, also when it
\* carries method and params: with another id it is logged as a Reply, with
\* the call's id its payload is what the call decodes and returns; a line is
\* taken as a Push Notification only if it does not fit the Reply shape and
\* fits the Notification shape; a line fitting neither ends the call with the
\* decode error that carries the line.
C16_ReplyShapeFirst ==
    [][RecvTextStep =>
          LET k == StopAt(HeadLines, id) IN
          /\ \A j \in 1..(k - 1) :
                /\ FitsReplyShape(HeadLines[j]) => printed'[j].tag = "Response"
                /\ printed'[j].tag = "IncomingRequest" =>
                      ~FitsReplyShape(HeadLines[j]) /\ FitsNotificationShape(HeadLines[j])
                /\ printed'[j].u = HeadLines[j][1]
          /\ k <= Len(HeadLines) /\ FitsReplyShape(HeadLines[k]) =>
                /\ Returns /\ result'.at = k
                /\ result'.st = "ok" => result'.val = HeadLines[k][1].result
                /\ result'.st = "err" =>
                      /\ result'.err = "Error parsing response"
                      /\ result'.rawPayload = HeadLines[k][1].result
          /\ k <= Len(HeadLines) /\ ~FitsReplyShape(HeadLines[k])
                                 /\ ~FitsNotificationShape(HeadLines[k]) =>
                /\ ReturnsErr
                /\ result'.err = "Error parsing packet"
                /\ result'.rawLine = HeadLines[k]]_vars

\* a call has returned the payload of a Reply that carried method and params
C16_Witness == pc = "repl" /\ result.st = "ok" /\ result.val = MethodReplyPayload

IsErrorEnvelope(line, n) ==
    /\ Len(line) = 1 /\ line[1].t = "obj"
    /\ line[1].id = n /\ line[1].jsonrpc /\ line[1].error
    /\ line[1].result = NoPayload /\ ~line[1].method

\* the line has the shape of a Reply with another id than n or, failing the
\* Reply shape, the shape of a Push Notification
PassedOver(line, n) ==
    \/ FitsReplyShape(line) /\ line[1].id # n
    \/ ~FitsReplyShape(line) /\ FitsNotificationShape(line)

\* C18: when a received message holds the error envelope for the call's id,
\* after nothing but Replies with other ids and Push Notifications, the call
\* returns in that step: a failure to its caller that carries the envelope's
\* raw text; it does not go on waiting.
C18_ErrorEnvelopeEndsCall ==
    [][RecvTextStep =>
          \A k \in 1..Len(HeadLines) :
              /\ IsErrorEnvelope(HeadLines[k], id)
              /\ \A j \in 1..(k - 1) : PassedOver(HeadLines[j], id)
              => /\ ReturnsErr
                 /\ pc' # "wait"
                 /\ result'.err = "Error parsing packet"
                 /\ result'.rawLine = HeadLines[k]
                 /\ result'.at = k]_vars

\* a delete command has failed on the device's error envelope, which came
\* after a Push Notification
C18_Witness ==
    /\ pc = "repl"
    /\ cur.m.v = "DeleteUpf"
    /\ result.st = "err"
    /\ result.rawLine = <<ErrorUnit(id)>>
    /\ result.at = 2

\* the line is a Reply to a call made before call n
IsLateReply(line, n) == IsResponse(line) /\ line[1].id < n

\* C19: while a call waits after the call before it failed, a Reply with the
\* id of an earlier call is logged and does not end the wait, and the step in
\* which the waiting call returns success stops at a Reply with the call's
\* own id, whose payload is the value returned.
C19_LateReplyDiscarded ==
    [][RecvTextStep /\ result.st = "err" =>
          LET k == StopAt(HeadLines, id) IN
          /\ \A j \in 1..Len(HeadLines) :
                IsLateReply(HeadLines[j], id) =>
                    /\ k # j
                    /\ Returns => result'.at # j
                    /\ j < k => /\ j <= Len(printed')
                                /\ printed'[j] = [tag |-> "Response", u |-> HeadLines[j][1]]
          /\ (\A j \in 1..Len(HeadLines) : IsLateReply(HeadLines[j], id)) =>
                pc' = "wait" /\ result' = result
          /\ ReturnsOk =>
                /\ k <= Len(HeadLines)
                /\ HeadLines[k][1].id = id
                /\ result'.val = HeadLines[k][1].result]_vars

\* call 3 waits after call 2 failed, it has logged the Reply with id 2 that
\* came late, and the message with its own Reply has arrived
C19_Witness ==
    /\ pc = "wait" /\ id = 3
    /\ result.st = "err"
    /\ printed = <<[tag |-> "Response", u |-> ReplyUnit(2, LatePayload)]>>
    /\ net # <<>>
    /\ Head(net).f = "text"
    /\ HeadLines # <<>>
    /\ IsReplyTo(HeadLines[1], 3)

\* C20: in the step in which the loop reaches the Reply with the call's id,
\* the call returns: the value or the failure is that of decoding this
\* Reply's payload alone, whatever the lines after it are; those lines are
\* left unread, not logged and not kept, and the next call starts with
\* nothing of them.
C20_ReturnsAtMatch ==
    [][/\ RecvTextStep =>
             LET k == StopAt(HeadLines, id) IN
             k <= Len(HeadLines) /\ IsReplyTo(HeadLines[k], id) =>
                 LET p == HeadLines[k][1].result IN
                 /\ Returns /\ pc' # "wait"
                 /\ result' = IF p.ty = ResultType(cur.m.v)
                              THEN Res("ok", p, "", <<>>, NoPayload, k)
                              ELSE Res("err", NoPayload, "Error parsing response", <<>>, p, k)
                 /\ unread' = SubSeq(HeadLines, k + 1, Len(HeadLines))
                 /\ Len(printed') = k - 1
                 /\ net' = <<>>
       /\ ncalls' = ncalls + 1 => net' = <<>> /\ unread' = <<>> /\ printed' = <<>>]_vars

\* a call has returned success from a message whose first line was its Reply
\* and whose second line was no JSON
C20_Witness ==
    /\ pc = "repl"
    /\ result.st = "ok"
    /\ result.at = 1
    /\ unread = <<<<Garbage>>>>

====
